---------------------------- MODULE Spec2Model ----------------------------
(***************************************************************************)
(* Portfolio Risk & Performance Dashboard.                                 *)
(*                                                                         *)
(* Two Streamlit viewer scripts (src/app.py and                            *)
(* src/RiskAnalysis_Advanced.py) read the export artifact                  *)
(* reports/Portfolio_Analysis_Advanced.xlsx, normalise three of its sheets *)
(* with clean_for_chart, slice them by the selected date range and render  *)
(* cards, charts and tables.  A refresh button runs the report generator   *)
(* as a subprocess.  The generator's own code is not among the source      *)
(* files; the definitions that stand for it follow the specification and   *)
(* are marked so in MODEL_MAP.json.                                        *)
(*                                                                         *)
(* Numbers are fixed point: returns and drawdowns in percent, timestamps   *)
(* in ticks (TicksPerDay ticks to a day).                                  *)
(***************************************************************************)
EXTENDS Integers, Sequences, FiniteSets

VARIABLES
    variant,      \* which viewer script the process runs: "app" | "advanced"
    revision,     \* the generator revision: the label it gives the date column
    artifact,     \* the file at FILE_PATH: <<>> absent, <<c>> holding content c
    cache,        \* st.cache_data's entry for load_excel(FILE_PATH): <<>> or <<c>>
    pc,           \* the viewer's position: "idle" or a place in the script run
    clicked,      \* the value the refresh button returns in this run
    refresh,      \* what the refresh block did in this run: "none" | "ok" | "failed"
    afterRefresh, \* the run under way was started by st.rerun() after a refresh
    data,         \* the script's variable data while the run is under way
    loadErr,      \* the exception load_excel raised in this run, or "none"
    view,         \* what the page shows
    genBy,        \* who started the running generator: "none" | "viewer" | "cli"
    genResult,    \* how the generator process ended, until its parent reads it
    df,           \* clean_for_chart on its own: the sheet passed in
    chart,        \*   the frame it (and then the date slice) returned
    step          \*   "in" | "cleaned" | "sliced"

vars == <<variant, revision, artifact, cache, pc, clicked, refresh, afterRefresh,
          data, loadErr, view, genBy, genResult, df, chart, step>>
viewerVars == <<variant, revision, artifact, cache, pc, clicked, refresh,
                afterRefresh, data, loadErr, view, genBy, genResult>>
chartVars == <<df, chart, step>>

-----------------------------------------------------------------------------
(* Bounds *)

\* Rows of a sheet handed to clean_for_chart on its own.
MaxRows == 2
\* Trading days with a return (the price series has one more row).
NDays == 2
\* Ticks of the timestamp clock in one day.
TicksPerDay == 2

-----------------------------------------------------------------------------
(* Cells of a sheet as pd.read_excel delivers them *)

Ts(t) == <<"ts", t>>      \* a datetime cell, t ticks after the epoch
Str(d) == <<"str", d>>    \* a text cell: d >= 1 spells day d, 0 spells no date
Num(n) == <<"num", n>>    \* a numeric cell
NaN == <<"nan", 0>>       \* an empty cell

\* pandas' NaT, the index value of a date that did not parse.
NaT == -1

Range(s) == {s[i] : i \in 1..Len(s)}

RECURSIVE SeqSum(_)
SeqSum(s) == IF s = <<>> THEN 0 ELSE s[1] + SeqSum(Tail(s))

Min(S) == CHOOSE x \in S : \A y \in S : x <= y
Max(S) == CHOOSE x \in S : \A y \in S : x >= y

\* The members of a set of positions in ascending order, as a sequence.
RECURSIVE Ascending(_)
Ascending(S) ==
    IF S = {} THEN <<>> ELSE <<Min(S)>> \o Ascending(S \ {Min(S)})

\* The dtype pandas infers for column j of a sheet.
DType(rows, j) ==
    LET kinds == {rows[i][j][1] : i \in 1..Len(rows)}
    IN  IF rows = <<>> THEN "object"
        ELSE IF kinds \subseteq {"num", "nan"} THEN "number"
        ELSE IF kinds \subseteq {"ts", "nan"} THEN "datetime"
        ELSE "object"

\* pd.to_datetime(cell, errors="coerce"): a number counts the clock's units since
\* the epoch, text is parsed, and what does not parse becomes NaT.
ToDatetime(cell) ==
    CASE cell[1] = "ts" -> cell[2]
      [] cell[1] = "num" -> cell[2]
      [] cell[1] = "str" /\ cell[2] >= 1 -> cell[2] * TicksPerDay
      [] OTHER -> NaT

-----------------------------------------------------------------------------
(* clean_for_chart *)

\* A frame: err (the call raised), the date index, the column labels and, per
\* row, the cells of those columns.
ErrFrame == [err |-> TRUE, index |-> <<>>, cols |-> <<>>, rows |-> <<>>]

\* Mutant: the unlabeled first column is not renamed.
RenameNothing(cols) == cols

\* df.rename(columns={"Unnamed: 0": "Date"})
RenameUnnamed(cols) ==
    [k \in 1..Len(cols) |-> IF cols[k] = "Unnamed: 0" THEN "Date" ELSE cols[k]]

\* df.reset_index() and the rename of the new first column to "Date": the old
\* RangeIndex 0..n-1 becomes the first column.
ResetIndex(sheet) ==
    [cols |-> <<"Date">> \o sheet.cols,
     rows |-> [i \in 1..Len(sheet.rows) |-> <<Num(i - 1)>> \o sheet.rows[i]]]

\* df.select_dtypes(include=["number"]) after set_index("Date") took column j
\* out of the frame: the positions of the columns kept.
SelectDtypes(d, j) ==
    Ascending({k \in 1..Len(d.cols) : k # j /\ DType(d.rows, k) = "number"})

\* Mutant: dropna is left out and every row stays.
DropnaNothing(d, keep) == Ascending({i \in 1..Len(d.rows) : TRUE})

\* df.dropna(): the positions of the rows with no missing value in a kept column.
Dropna(d, keep) ==
    Ascending({i \in 1..Len(d.rows) :
                  \A c \in 1..Len(keep) : d.rows[i][keep[c]][1] # "nan"})

\* From df["Date"] = pd.to_datetime(...) to the returned frame.  With two
\* columns labelled "Date", df["Date"] is a frame and to_datetime raises.
Normalize(d) ==
    LET dates == Ascending({k \in 1..Len(d.cols) : d.cols[k] = "Date"})
        j == dates[1]
        keep == SelectDtypes(d, j)
        full == Dropna(d, keep)
    IN  IF Len(dates) # 1 THEN ErrFrame
        ELSE [err |-> FALSE,
              index |-> [r \in 1..Len(full) |-> ToDatetime(d.rows[full[r]][j])],
              cols |-> [c \in 1..Len(keep) |-> d.cols[keep[c]]],
              rows |-> [r \in 1..Len(full) |->
                          [c \in 1..Len(keep) |-> d.rows[full[r]][keep[c]]]]]

CleanForChart(sheet) ==
    LET renamed == [cols |-> RenameUnnamed(sheet.cols), rows |-> sheet.rows]
    IN  IF "Date" \in Range(renamed.cols) THEN Normalize(renamed)
        ELSE Normalize(ResetIndex(renamed))

-----------------------------------------------------------------------------
(* frame.loc[str(start_date):str(end_date)] on a DatetimeIndex *)

\* The first and the last tick of calendar day d: what pandas makes of the
\* day-resolution strings at the two ends of the slice.
DayStart(d) == d * TicksPerDay

\* Mutant: the slice ends before the end date, as a half-open range would.
DayEndExclusive(d) == d * TicksPerDay - 1

DayEnd(d) == d * TicksPerDay + TicksPerDay - 1

IsMonotonicIncreasing(index) ==
    /\ \A i \in 1..Len(index) : index[i] # NaT
    /\ \A i \in 1..Len(index) : i > 1 => index[i - 1] <= index[i]

\* index.searchsorted(x, side="left") and side="right" on a sorted index.
SearchLeft(index, x) == Cardinality({i \in 1..Len(index) : index[i] < x})
SearchRight(index, x) == Cardinality({i \in 1..Len(index) : index[i] <= x})

Rows(f, pos) ==
    [err |-> FALSE,
     index |-> [r \in 1..Len(pos) |-> f.index[pos[r]]],
     cols |-> f.cols,
     rows |-> [r \in 1..Len(pos) |-> f.rows[pos[r]]]]

\* DatetimeIndex.slice_indexer with two string bounds.  A sorted index is cut
\* by position; any other index is masked, and pandas refuses (KeyError) when a
\* bound is not itself a value of the index.
LocSlice(f, start, end) ==
    LET lo == DayStart(start)
        hi == DayEnd(end)
        left == SearchLeft(f.index, lo)
        right == SearchRight(f.index, hi)
        inIndex == lo \in Range(f.index) /\ hi \in Range(f.index)
    IN  IF IsMonotonicIncreasing(f.index)
        THEN Rows(f, Ascending({i \in 1..right : i > left}))
        ELSE IF ~inIndex THEN ErrFrame
        ELSE Rows(f, Ascending({i \in 1..Len(f.index) :
                                   /\ f.index[i] # NaT
                                   /\ lo <= f.index[i]
                                   /\ f.index[i] <= hi}))

-----------------------------------------------------------------------------
(* The report generator (from the specification: its code is not among the     *)
(* source files)                                                               *)

\* Configuration, scaled to the model: the closing prices a fetch can return,
\* the initial investment, the risk-free rate in percent a year, the trading
\* days of a year, the years of the CAGR horizon and the rolling window.
PriceLevels == {1, 2}
InitialInvestment == 100000
RiskFreePct == 2
TradingDays == 252
HorizonYears == 5
RollWindow == 2

\* The calendar day of the t-th trading day: a closed day after every second
\* one, so that the calendar has days the index does not.
TradingDay(t) == t + (t - 1) \div 2

\* The benchmark's close on the t-th trading day.
BenchPrice(t) == t + 1

RECURSIVE Pow(_, _)
Pow(b, k) == IF k = 0 THEN 1 ELSE b * Pow(b, k - 1)

\* The integer k-th root of n, searched between lo and hi.
RECURSIVE IRoot(_, _, _, _)
IRoot(n, k, lo, hi) ==
    IF lo >= hi THEN lo
    ELSE LET mid == (lo + hi + 1) \div 2
         IN  IF Pow(mid, k) <= n THEN IRoot(n, k, mid, hi)
             ELSE IRoot(n, k, lo, mid - 1)

Mean(s) == SeqSum(s) \div Len(s)

\* Sample covariance (n - 1 in the denominator), as pandas computes it.
Cov(a, b) ==
    LET ma == Mean(a)
        mb == Mean(b)
    IN  SeqSum([i \in 1..Len(a) |-> (a[i] - ma) * (b[i] - mb)]) \div (Len(a) - 1)

\* compute_returns: the day-over-day change in percent; the first row is dropped.
ComputeReturns(p) ==
    [t \in 1..(Len(p) - 1) |-> ((p[t + 1] - p[t]) * 100) \div p[t]]

\* compute_portfolio_series: the initial investment compounded by each return.
RECURSIVE PortfolioValue(_, _)
PortfolioValue(r, t) ==
    IF t = 0 THEN InitialInvestment
    ELSE (PortfolioValue(r, t - 1) * (100 + r[t])) \div 100

\* The running maximum of v up to and including position t.
RECURSIVE CumMax(_, _)
CumMax(v, t) ==
    IF t = 1 THEN v[1]
    ELSE IF v[t] > CumMax(v, t - 1) THEN v[t] ELSE CumMax(v, t - 1)

\* Mutant: the drop is measured against the first value, not the running maximum.
DrawdownFromStart(v) ==
    [t \in 1..Len(v) |-> ((v[t] - v[1]) * 100) \div v[1]]

\* compute_drawdown: (value - running maximum) / running maximum, in percent.
ComputeDrawdown(v) ==
    [t \in 1..Len(v) |-> ((v[t] - CumMax(v, t)) * 100) \div CumMax(v, t)]

\* Annualised volatility in percent: stdev(daily returns) * sqrt(252).
Volatility(r) == IRoot(Cov(r, r) * TradingDays, 2, 0, 5000)

\* The Sharpe ratio in hundredths, undefined (NaN) when the volatility is zero.
Sharpe(r) ==
    IF Volatility(r) = 0 THEN NaN
    ELSE Num(((Mean(r) * TradingDays - RiskFreePct) * 100) \div Volatility(r))

\* compute_rolling_sharpe: undefined for the first window - 1 dates.
ComputeRollingSharpe(r) ==
    [t \in 1..Len(r) |->
        IF t < RollWindow THEN NaN
        ELSE Sharpe(SubSeq(r, t - RollWindow + 1, t))]

\* compute_beta in hundredths: Cov(portfolio, benchmark) / Var(benchmark).
ComputeBeta(r, b) ==
    IF Cov(b, b) = 0 THEN NaN ELSE Num((Cov(r, b) * 100) \div Cov(b, b))

\* compute_cagr in percent: (final / initial)^(1 / horizon) - 1.
ComputeCagr(final) ==
    (IRoot(((final * 100) \div InitialInvestment) * 1000, HorizonYears, 0, 40) - 10) * 10

\* The Summary Metrics table: the seven named scalars in their fixed order.
SummaryMetrics(r, v, dd, bench) ==
    <<  <<"Final Value", Num(v[Len(v)])>>,
        <<"Total PnL", Num(v[Len(v)] - InitialInvestment)>>,
        <<"Annualized Return (CAGR)", Num(ComputeCagr(v[Len(v)]))>>,
        <<"Annualized Volatility", Num(Volatility(r))>>,
        <<"Sharpe Ratio", Sharpe(r)>>,
        <<"Beta vs benchmark", ComputeBeta(r, bench)>>,
        <<"Maximum Drawdown", Num(Min(Range(dd)))>>  >>

SheetNames == {"Portfolio Value", "Daily Returns", "Drawdown", "Rolling Sharpe",
               "Price Data", "Summary Metrics"}

\* A date-indexed sheet as the viewer reads it back: the dates under dateLabel,
\* then one column of cells.
DatedSheet(dateLabel, firstRow, label, cells) ==
    [cols |-> <<dateLabel, label>>,
     rows |-> [t \in 1..Len(cells) |->
                 <<Ts(DayStart(TradingDay(firstRow + t - 1))), cells[t]>>]]

Nums(s) == [t \in 1..Len(s) |-> Num(s[t])]

\* write_export: the six sheets of one run over the fetched prices p.
Generate(p, dateLabel) ==
    LET r == ComputeReturns(p)
        v == [t \in 1..Len(r) |-> PortfolioValue(r, t)]
        dd == ComputeDrawdown(v)
        bench == ComputeReturns([t \in 1..Len(p) |-> BenchPrice(t)])
    IN  [corrupt |-> FALSE,
         sheets |->
           [n \in SheetNames |->
              CASE n = "Portfolio Value" -> DatedSheet(dateLabel, 2, n, Nums(v))
                [] n = "Daily Returns" -> DatedSheet(dateLabel, 2, "Return", Nums(r))
                [] n = "Drawdown" -> DatedSheet(dateLabel, 2, n, Nums(dd))
                [] n = "Rolling Sharpe" ->
                       DatedSheet(dateLabel, 2, n, ComputeRollingSharpe(r))
                [] n = "Price Data" -> DatedSheet(dateLabel, 1, "Close", Nums(p))
                [] OTHER ->
                       [cols |-> <<"Metric", "Value">>,
                        rows |-> SummaryMetrics(r, v, dd, bench)]]]

\* What a crash in the middle of write_export leaves at the path.
Corrupt == [corrupt |-> TRUE]

PriceSeries == [1..(NDays + 1) -> PriceLevels]

\* Every artifact a successful run can write, with the date label it uses.
Exports == {<<l, Generate(p, l)>> : p \in PriceSeries, l \in {"Date", "Unnamed: 0"}}

-----------------------------------------------------------------------------
(* The viewer script *)

Variants == {"app", "advanced"}
DateLabels == {"Date", "Unnamed: 0"}

\* metrics[row["Metric"]] = row["Value"] over summary.iterrows(): a later row
\* of the same name replaces an earlier one.
Metrics(summary) ==
    [name \in {summary.rows[i][1] : i \in 1..Len(summary.rows)} |->
        LET last == Max({i \in 1..Len(summary.rows) : summary.rows[i][1] = name})
        IN  summary.rows[last][2]]

\* metrics.get(key, 0)
Get(metrics, key) == IF key \in DOMAIN metrics THEN metrics[key] ELSE Num(0)

\* The four summary cards, each with the key the script looks up.
Cards == {"Final Value", "CAGR", "Volatility", "Sharpe Ratio"}
CardKey(card) ==
    CASE card = "Final Value" -> "Final Value"
      [] card = "CAGR" -> "Annualized Return (CAGR)"
      [] card = "Volatility" -> "Volatility (Annualized)"
      [] card = "Sharpe Ratio" -> "Sharpe Ratio"

\* df.tail(10)
TailRows(sheet) ==
    [cols |-> sheet.cols,
     rows |-> SubSeq(sheet.rows, Max({1, Len(sheet.rows) - 9}), Len(sheet.rows))]

\* The calendar day of a timestamp.
DayOf(ts) == ts \div TicksPerDay

Blank(kind) == [kind |-> kind]

\* Sections 4 to 8 of the script for the dates the date_input returns: the
\* page, or the exception box when a slice raises.
Page(sheets, start, end) ==
    LET pv == CleanForChart(sheets["Portfolio Value"])
        dd == CleanForChart(sheets["Drawdown"])
        rs == CleanForChart(sheets["Rolling Sharpe"])
        pvF == LocSlice(pv, start, end)
        ddF == LocSlice(dd, start, end)
        rsF == LocSlice(rs, start, end)
        metrics == Metrics(sheets["Summary Metrics"])
    IN  IF pvF.err \/ ddF.err \/ rsF.err THEN Blank("exception")
        ELSE [kind |-> "page",
              start |-> start,
              end |-> end,
              cards |-> [c \in Cards |-> Get(metrics, CardKey(c))],
              pv |-> pvF,
              dd |-> ddF,
              rs |-> rsF,
              tables |-> <<sheets["Summary Metrics"],
                           TailRows(sheets["Daily Returns"]),
                           TailRows(sheets["Price Data"])>>]

\* A script run starts: a first visit or a widget interaction (button FALSE),
\* or a click on the refresh button of the page (button TRUE).
StartRun(button) ==
    /\ pc = "idle"
    /\ genBy = "none"
    /\ button => view.kind # "none"
    /\ pc' = "button"
    /\ clicked' = button
    /\ afterRefresh' = FALSE
    /\ refresh' = "none"
    /\ data' = <<>>
    /\ loadErr' = "none"
    /\ view' = Blank("running")
    /\ UNCHANGED <<variant, revision, artifact, cache, genBy, genResult>>

Rerun == StartRun(FALSE) /\ UNCHANGED chartVars

ClickRefresh == StartRun(TRUE) /\ UNCHANGED chartVars

\* if st.button(...): try: subprocess.run([...], check=True)
ButtonNotClicked ==
    /\ pc = "button"
    /\ ~clicked
    /\ pc' = "load"
    /\ UNCHANGED <<variant, revision, artifact, cache, clicked, refresh,
                   afterRefresh, data, loadErr, view, genBy, genResult>>
    /\ UNCHANGED chartVars

SpawnGenerator ==
    /\ pc = "button"
    /\ clicked
    /\ pc' = "wait"
    /\ genBy' = "viewer"
    /\ UNCHANGED <<variant, revision, artifact, cache, clicked, refresh,
                   afterRefresh, data, loadErr, view, genResult>>
    /\ UNCHANGED chartVars

\* python3 cannot be started: subprocess.run raises, except Exception reports.
SpawnFails ==
    /\ pc = "button"
    /\ clicked
    /\ pc' = "load"
    /\ refresh' = "failed"
    /\ UNCHANGED <<variant, revision, artifact, cache, clicked, afterRefresh,
                   data, loadErr, view, genBy, genResult>>
    /\ UNCHANGED chartVars

\* subprocess.run returns.  Exit 0: st.success, then st.rerun() ends this run
\* and starts the next.  Non-zero: CalledProcessError, reported by st.error,
\* and the script goes on.
RefreshOk ==
    /\ pc = "wait"
    /\ genResult = "ok"
    /\ pc' = "button"
    /\ clicked' = FALSE
    /\ afterRefresh' = TRUE
    /\ genBy' = "none"
    /\ genResult' = "none"
    /\ UNCHANGED <<variant, revision, artifact, cache, refresh, data, loadErr, view>>
    /\ UNCHANGED chartVars

\* Mutant: the failure is reported and the script is rerun all the same.
RefreshFailedReruns ==
    /\ pc = "wait"
    /\ genResult \notin {"none", "ok"}
    /\ pc' = "button"
    /\ clicked' = FALSE
    /\ refresh' = "failed"
    /\ genBy' = "none"
    /\ genResult' = "none"
    /\ UNCHANGED <<variant, revision, artifact, cache, afterRefresh, data, loadErr,
                   view>>
    /\ UNCHANGED chartVars

RefreshFailed ==
    /\ pc = "wait"
    /\ genResult \notin {"none", "ok"}
    /\ pc' = "load"
    /\ refresh' = "failed"
    /\ genBy' = "none"
    /\ genResult' = "none"
    /\ UNCHANGED <<variant, revision, artifact, cache, clicked, afterRefresh,
                   data, loadErr, view>>
    /\ UNCHANGED chartVars

\* load_excel(FILE_PATH) under @st.cache_data: a cached result is returned
\* without reading; a result read is cached; an exception is not.
LoadExcel(cached, file) ==
    IF cached # <<>> THEN [err |-> "none", data |-> cached]
    ELSE IF file = <<>> THEN [err |-> "FileNotFoundError", data |-> <<>>]
    ELSE IF file[1].corrupt THEN [err |-> "BadZipFile", data |-> <<>>]
    ELSE [err |-> "none", data |-> file]

\* What the script does with an exception of load_excel: app.py catches
\* FileNotFoundError, shows the instruction and stops; nothing else is caught.
OnLoadError(script, err) ==
    IF script = "app" /\ err = "FileNotFoundError" THEN Blank("missing")
    ELSE Blank("exception")

Load ==
    /\ pc = "load"
    /\ LET got == LoadExcel(cache, artifact)
       IN  /\ loadErr' = got.err
           /\ data' = got.data
           /\ cache' = IF got.err = "none" THEN got.data ELSE cache
           /\ pc' = IF got.err = "none" THEN "render" ELSE "idle"
           /\ view' = IF got.err = "none" THEN view ELSE OnLoadError(variant, got.err)
           /\ afterRefresh' = (got.err = "none" /\ afterRefresh)
    /\ UNCHANGED <<variant, revision, artifact, clicked, refresh, genBy, genResult>>
    /\ UNCHANGED chartVars

\* The rest of the script, for a date range chosen in the sidebar between the
\* first and the last date of the portfolio value series.
Render ==
    /\ pc = "render"
    /\ LET sheets == data[1].sheets
           pv == CleanForChart(sheets["Portfolio Value"])
           days == {DayOf(pv.index[i]) : i \in 1..Len(pv.index)}
       IN  \E start, end \in Min(days)..Max(days) :
               view' = Page(sheets, start, end)
    /\ pc' = "idle"
    /\ data' = <<>>
    /\ afterRefresh' = FALSE
    /\ UNCHANGED <<variant, revision, artifact, cache, clicked, refresh,
                   loadErr, genBy, genResult>>
    /\ UNCHANGED chartVars

-----------------------------------------------------------------------------
(* The generator process *)

\* The generator is started from the command line while no script run is on.
CliLaunch ==
    /\ pc = "idle"
    /\ genBy = "none"
    /\ genBy' = "cli"
    /\ UNCHANGED <<variant, revision, artifact, cache, pc, clicked, refresh,
                   afterRefresh, data, loadErr, view, genResult>>
    /\ UNCHANGED chartVars

CliExit ==
    /\ genBy = "cli"
    /\ genResult # "none"
    /\ genBy' = "none"
    /\ genResult' = "none"
    /\ UNCHANGED <<variant, revision, artifact, cache, pc, clicked, refresh,
                   afterRefresh, data, loadErr, view>>
    /\ UNCHANGED chartVars

\* Mutant: the file is opened for writing before the fetch, so that a run which
\* aborts leaves a truncated file.
WrittenEarly(file, result, content) ==
    IF result = "ok" THEN <<content>> ELSE <<Corrupt>>

\* The file at the path after a run that ended with result.
Written(file, result, content) ==
    CASE result = "ok" -> <<content>>
      [] result = "write_crashed" -> <<Corrupt>>
      [] OTHER -> file

GenResults == {"ok", "fetch_failed", "compute_failed", "write_crashed"}

\* One run of the generator: fetch, compute, write, or abort at the first
\* failure.
GenRun ==
    /\ genBy # "none"
    /\ genResult = "none"
    /\ \E result \in GenResults :
          \E e \in IF result = "ok" THEN {x \in Exports : x[1] = revision}
                    ELSE {<<revision, Corrupt>>} :
              /\ genResult' = result
              /\ artifact' = Written(artifact, result, e[2])
    /\ UNCHANGED <<variant, revision, cache, pc, clicked, refresh, afterRefresh,
                   data, loadErr, view, genBy>>
    /\ UNCHANGED chartVars

-----------------------------------------------------------------------------
(* clean_for_chart and the date slice on sheets of any shape *)

DateCells == {Ts(DayStart(1)), Str(2), Str(0), NaN, Num(3)}
ValueCells == {Num(5), Num(7), NaN, Str(0)}
CellsOf(label) ==
    CASE label \in {"Date", "Unnamed: 0"} -> DateCells
      [] label = "Value" -> ValueCells
      [] OTHER -> {Str(0)}

Layouts == {<<"Date", "Value">>, <<"Unnamed: 0", "Value">>, <<"Value">>,
            <<"Unnamed: 0", "Date">>, <<"Date", "Value", "Note">>}

RowsOf(cols) == {r \in [1..Len(cols) -> DateCells \cup ValueCells] :
                    \A k \in 1..Len(cols) : r[k] \in CellsOf(cols[k])}

\* df is a sheet of one of the layouts with at most MaxRows rows.
IsSheet ==
    \E cols \in Layouts, n \in 0..MaxRows :
        \E rows \in [1..n -> RowsOf(cols)] : df = [cols |-> cols, rows |-> rows]

Clean ==
    /\ step = "in"
    /\ chart' = CleanForChart(df)
    /\ step' = "cleaned"
    /\ UNCHANGED df
    /\ UNCHANGED viewerVars

Slice ==
    /\ step = "cleaned"
    /\ ~chart.err
    /\ \E start, end \in 1..2 : chart' = LocSlice(chart, start, end)
    /\ step' = "sliced"
    /\ UNCHANGED df
    /\ UNCHANGED viewerVars

-----------------------------------------------------------------------------
(* Specifications *)

ViewerInit ==
    /\ artifact = <<>>
    /\ cache = <<>>
    /\ pc = "idle"
    /\ clicked = FALSE
    /\ refresh = "none"
    /\ afterRefresh = FALSE
    /\ data = <<>>
    /\ loadErr = "none"
    /\ view = Blank("none")
    /\ genBy = "none"
    /\ genResult = "none"

\* The viewer process and the generator runs around it.
Init ==
    /\ variant \in Variants
    /\ revision \in DateLabels
    /\ ViewerInit
    /\ df = [cols |-> <<>>, rows |-> <<>>]
    /\ chart = ErrFrame
    /\ step = "in"

Next ==
    \/ Rerun
    \/ ClickRefresh
    \/ ButtonNotClicked
    \/ SpawnGenerator
    \/ SpawnFails
    \/ RefreshOk
    \/ RefreshFailed
    \/ Load
    \/ Render
    \/ CliLaunch
    \/ CliExit
    \/ GenRun

Spec == Init /\ [][Next]_vars

\* clean_for_chart, then the slice, applied to one sheet of the bounded family.
InitClean ==
    /\ variant = "app"
    /\ revision = "Date"
    /\ ViewerInit
    /\ IsSheet
    /\ chart = ErrFrame
    /\ step = "in"

NextClean == Clean \/ Slice

SpecClean == InitClean /\ [][NextClean]_vars

-----------------------------------------------------------------------------
(* Properties of clean_for_chart (under SpecClean) *)

\* What the sheet itself says, read off its cells.
DateColumns(sheet) ==
    {k \in 1..Len(sheet.cols) : sheet.cols[k] \in DateLabels}
DateColumn(sheet) == CHOOSE k \in DateColumns(sheet) : TRUE
NumericColumns(sheet) ==
    {k \in 1..Len(sheet.cols) :
        /\ k \notin DateColumns(sheet)
        /\ sheet.rows # <<>>
        /\ \A i \in 1..Len(sheet.rows) : sheet.rows[i][k][1] \in {"num", "nan"}}
Complete(sheet, i) ==
    \A k \in NumericColumns(sheet) : sheet.rows[i][k][1] = "num"
\* The date of row i: its cell in the date column, or its position when the
\* sheet has no date column.
DateOfRow(sheet, i) ==
    IF DateColumns(sheet) = {} THEN i - 1
    ELSE ToDatetime(sheet.rows[i][DateColumn(sheet)])
\* Row i as it should appear in the output: its date and its numeric cells.
Projected(sheet, i) ==
    <<DateOfRow(sheet, i),
      Ascending({k \in 1..Len(sheet.cols) : k \in NumericColumns(sheet)}),
      [k \in NumericColumns(sheet) |-> sheet.rows[i][k]]>>
\* Row r of a frame in the same form, its cells keyed by the column of the
\* sheet that carries the label.
FrameRow(sheet, f, r) ==
    <<f.index[r],
      Ascending({k \in 1..Len(sheet.cols) : sheet.cols[k] \in Range(f.cols)}),
      [k \in {k \in 1..Len(sheet.cols) : sheet.cols[k] \in Range(f.cols)} |->
          f.rows[r][CHOOSE c \in 1..Len(f.cols) : f.cols[c] = sheet.cols[k]]]>>

\* The sheet with the other label on its date column.
Relabel(sheet) ==
    [cols |-> [k \in 1..Len(sheet.cols) |->
                 CASE sheet.cols[k] = "Date" -> "Unnamed: 0"
                   [] sheet.cols[k] = "Unnamed: 0" -> "Date"
                   [] OTHER -> sheet.cols[k]],
     rows |-> sheet.rows]

\* C3: no row of the output of clean_for_chart has an unparsed date (NaT) as
\* its index value, whatever its numeric columns hold.
C3_NoUnparsedDate ==
    (step = "cleaned" /\ ~chart.err) =>
        \A r \in 1..Len(chart.index) : chart.index[r] # NaT

\* C4: a sheet with a "Date" column and the same sheet with the dates under
\* "Unnamed: 0" normalise to the same frame, and the date axis of that frame
\* is the date column's values for the rows kept, not the row positions.
C4_BothShapes ==
    (step = "cleaned" /\ Cardinality(DateColumns(df)) = 1) =>
        /\ ~chart.err
        /\ chart = CleanForChart(Relabel(df))
        /\ LET kept == Ascending({i \in 1..Len(df.rows) : Complete(df, i)})
           IN  chart.index =
                   [r \in 1..Len(kept) |->
                       ToDatetime(df.rows[kept[r]][DateColumn(df)])]

\* C4 happens: a sheet with its dates under "Unnamed: 0" is normalised to two
\* rows dated by their cells (day 1, then day 2), which are not the row
\* positions 0 and 1.
C4_Witness ==
    /\ step = "cleaned"
    /\ df.cols = <<"Unnamed: 0", "Value">>
    /\ ~chart.err
    /\ chart.index = <<DayStart(1), DayStart(2)>>
    /\ chart.index # <<0, 1>>

\* C5: the output holds only numeric-typed columns of the sheet and no
\* missing value, and the input rows with a parsable date and no missing
\* numeric value are exactly its dated rows, in order, with their values.
C5_NumericComplete ==
    (step = "cleaned" /\ ~chart.err) =>
        /\ \A c \in 1..Len(chart.cols) :
              \E k \in NumericColumns(df) : df.cols[k] = chart.cols[c]
        /\ \A r \in 1..Len(chart.rows) : \A c \in 1..Len(chart.cols) :
              chart.rows[r][c][1] = "num"
        /\ LET good == Ascending({i \in 1..Len(df.rows) :
                                     DateOfRow(df, i) # NaT /\ Complete(df, i)})
               dated == Ascending({r \in 1..Len(chart.index) : chart.index[r] # NaT})
           IN  [g \in 1..Len(good) |-> Projected(df, good[g])]
                   = [g \in 1..Len(dated) |-> FrameRow(df, chart, dated[g])]

\* C5 happens: of two rows the one with a missing value is dropped and the
\* complete one with a parsable date is kept, and the text column is gone.
C5_Witness ==
    /\ step = "cleaned"
    /\ df.cols = <<"Date", "Value", "Note">>
    /\ Len(df.rows) = 2
    /\ df.rows[1][2] = NaN
    /\ chart.cols = <<"Value">>
    /\ chart.index = <<DayStart(2)>>
    /\ chart.rows = << <<Num(7)>> >>

-----------------------------------------------------------------------------
(* Properties of the viewer and the generator (under Spec) *)

\* The values of the one data column of a date-indexed sheet.
Values(sheet) == [t \in 1..Len(sheet.rows) |-> sheet.rows[t][2][2]]

\* The value the generator wrote under a metric's name, read off the table.
WrittenMetric(summary, name) ==
    summary.rows[CHOOSE i \in 1..Len(summary.rows) : summary.rows[i][1] = name][2]

\* The metric each summary card stands for, by its name in the Summary Metrics
\* table.
CardMetric(card) ==
    CASE card = "Final Value" -> "Final Value"
      [] card = "CAGR" -> "Annualized Return (CAGR)"
      [] card = "Volatility" -> "Annualized Volatility"
      [] card = "Sharpe Ratio" -> "Sharpe Ratio"

\* The rows of a normalised frame whose date lies in start..end, in order.
Between(f, start, end) ==
    Rows(f, Ascending({i \in 1..Len(f.index) :
                          start <= DayOf(f.index[i]) /\ DayOf(f.index[i]) <= end}))

\* C1: when load_excel finds no file at the path, the viewer shows the "run
\* the generator first" message and stops, in either script.
C1_MissingArtifactMessage ==
    loadErr = "FileNotFoundError" => view.kind = "missing"

\* C2: in the run that st.rerun() starts after a successful refresh, the data
\* the script goes on to render is the content of the artifact just written.
C2_RefreshShowsNewArtifact ==
    (pc = "render" /\ afterRefresh) => data = artifact

C8_Drawdown ==
    (artifact # <<>> /\ ~artifact[1].corrupt) =>
        LET v == Values(artifact[1].sheets["Portfolio Value"])
            dd == Values(artifact[1].sheets["Drawdown"])
        IN  /\ Len(dd) = Len(v)
            /\ \A t \in 1..Len(v) :
                  /\ dd[t] <= 0
                  /\ (\A u \in 1..(t - 1) : v[u] < v[t]) => dd[t] = 0
                  /\ t > 1 => CumMax(v, t - 1) <= CumMax(v, t)
                  /\ (dd[t] < 0) = (v[t] < Max({v[u] : u \in 1..t}))

\* C8 happens: an artifact whose value falls below its earlier maximum.
C8_Witness ==
    /\ artifact # <<>>
    /\ ~artifact[1].corrupt
    /\ Values(artifact[1].sheets["Drawdown"])[1] = 0
    /\ Values(artifact[1].sheets["Drawdown"])[2] < 0

\* C9: every metric read back by its name is the value written, and each of
\* the four cards shows the written value of its metric.
C9_SummaryRoundTrip ==
    view.kind = "page" =>
        LET summary == view.tables[1]
        IN  /\ \A i \in 1..Len(summary.rows) :
                  Get(Metrics(summary), summary.rows[i][1]) = summary.rows[i][2]
            /\ \A card \in Cards :
                  view.cards[card] = WrittenMetric(summary, CardMetric(card))

=============================================================================
